---- MODULE Spec2Model ----
(***************************************************************************)
(* Model of extract_stores.py: the sitemap reader, the per-page extractor  *)
(* get_store_details (with its helper extract_text) and the driver main(). *)
(*                                                                         *)
(* Text is a sequence of one-character strings.  Python's None is NoneVal. *)
(* A page is represented by what each regular expression of the extractor  *)
(* captures from it (NoMatch when re.search finds nothing).                *)
(***************************************************************************)
EXTENDS Integers, Sequences, FiniteSets, TLC

\* ------------------------------------------------------------------ bounds
MaxLen == 6
MaxUrlLen == 3
MaxUrls == 3

\* ------------------------------------------------------------------- state
\* cs, cphase, c1, c2: a string and the results of cleaning it once and twice
\* eurl .. eres: one call of get_store_details and what it returned
\* the rest: the run of main()
VARIABLES cs, cphase, c1, c2,
          eurl, eworld, everbose, ephase, eres,
          pc, argv, sitemap, verbose, urls, idx, all_stores, errors, log,
          exitStatus, requests, sleeps

cvars == <<cs, cphase, c1, c2>>
evars == <<eurl, eworld, everbose, ephase, eres>>
mvars == <<pc, argv, sitemap, verbose, urls, idx, all_stores, errors, log, exitStatus, requests, sleeps>>
vars == <<cvars, evars, mvars>>

\* ------------------------------------------------------------ basic values
NoneVal == <<"None">>
NoMatch == <<"NoMatch">>

RECURSIVE StringsUpTo(_, _)
StringsUpTo(alphabet, n) ==
    IF n = 0 THEN {<<>>}
    ELSE LET shorter == StringsUpTo(alphabet, n - 1)
         IN shorter \cup {Append(s, c) : s \in {t \in shorter : Len(t) = n - 1}, c \in alphabet}

CharCode(c) ==
    CASE c = "\n" -> 10
      [] c = " " -> 32
      [] c = "-" -> 45
      [] c = "." -> 46
      [] c = "/" -> 47
      [] c = "0" -> 48
      [] c = "2" -> 50
      [] c = "3" -> 51
      [] c = "5" -> 53
      [] c = "7" -> 55
      [] c = "<" -> 60
      [] c = ">" -> 62
      [] c = "A" -> 65
      [] c = "M" -> 77
      [] c = "a" -> 97
      [] c = "m" -> 109
      [] c = "s" -> 115
      [] OTHER -> 0

IsSpace(c) == c \in {" ", "\n"}
IsDigit(c) == c \in {"0", "2", "3", "5", "7"}
DigitVal(c) == CharCode(c) - 48

SubStr(s, i, j) == IF i > j THEN <<>> ELSE SubSeq(s, i, j)

\* get_store_details returns NotFound (None) or <<store_data>>
NotFound == <<>>

\* a part of the state that a specification does not use stays put
CleanIdle == cs = <<>> /\ cphase = "idle" /\ c1 = <<>> /\ c2 = <<>>

ExtractIdle ==
    /\ eurl = <<>>
    /\ eworld = <<>>
    /\ everbose = FALSE
    /\ ephase = "idle"
    /\ eres = [value |-> NotFound, out |-> <<>>]

MainIdle ==
    /\ pc = "idle"
    /\ argv = FALSE
    /\ sitemap = <<>>
    /\ verbose = FALSE
    /\ urls = <<>>
    /\ idx = 0
    /\ all_stores = <<>>
    /\ errors = <<>>
    /\ log = <<>>
    /\ exitStatus = -1
    /\ requests = 0
    /\ sleeps = 0

\* --------------------------------------------------- extract_text cleaning
\* str.strip()
RECURSIVE LStrip(_)
LStrip(s) == IF s # <<>> /\ IsSpace(Head(s)) THEN LStrip(Tail(s)) ELSE s

RECURSIVE RStrip(_)
RStrip(s) == IF s # <<>> /\ IsSpace(s[Len(s)]) THEN RStrip(SubStr(s, 1, Len(s) - 1)) ELSE s

Strip(s) == RStrip(LStrip(s))

\* End of the match of '<[^<]+?>' starting at position i, 0 when there is none:
\* '<', then the fewest (at least one) characters other than '<', then '>'.
TagEnd(s, i) ==
    IF i > Len(s) \/ s[i] # "<" THEN 0
    ELSE LET ends == {j \in (i + 2)..Len(s) :
                        /\ s[j] = ">"
                        /\ \A k \in (i + 1)..(j - 1) : s[k] # "<"}
         IN IF ends = {} THEN 0
            ELSE CHOOSE j \in ends : \A k \in ends : j <= k

HasTag(s) == \E i \in 1..Len(s) : TagEnd(s, i) # 0

\* re.sub('<[^<]+?>', '', s): leftmost non-overlapping matches, one pass
RECURSIVE RemoveTagsFrom(_, _)
RemoveTagsFrom(s, i) ==
    IF i > Len(s) THEN <<>>
    ELSE IF TagEnd(s, i) # 0 THEN RemoveTagsFrom(s, TagEnd(s, i) + 1)
    ELSE <<s[i]>> \o RemoveTagsFrom(s, i + 1)

RemoveTags(s) == RemoveTagsFrom(s, 1)

\* re.sub(r'\s+', ' ', s)
RECURSIVE CollapseFrom(_, _)
CollapseFrom(s, i) ==
    IF i > Len(s) THEN <<>>
    ELSE IF IsSpace(s[i])
         THEN IF i > 1 /\ IsSpace(s[i - 1]) THEN CollapseFrom(s, i + 1)
              ELSE <<" ">> \o CollapseFrom(s, i + 1)
    ELSE <<s[i]>> \o CollapseFrom(s, i + 1)

CollapseWs(s) == CollapseFrom(s, 1)

\* the clean=True branch with the strip after the tag removal left out
CleanNoStrip(r) == CollapseWs(RemoveTags(r))

\* the clean=True branch applied to the stripped capture
Clean(r) == CollapseWs(Strip(RemoveTags(r)))

\* extract_text(pattern, text, group, clean) seen from the capture of the
\* pattern's group in the text (NoMatch when re.search returns None)
extract_text(cap, clean) ==
    IF cap = NoMatch THEN NoneVal
    ELSE LET result == Strip(cap)
         IN IF clean THEN Clean(result) ELSE result

\* ------------------------------------------------ text cleaning, in isolation
CleanAlphabet == {"<", ">", " ", "\n", "a"}

CleanInit ==
    /\ cs \in StringsUpTo(CleanAlphabet, MaxLen)
    /\ cphase = "input"
    /\ c1 = <<>>
    /\ c2 = <<>>
    /\ ExtractIdle
    /\ MainIdle

CleanOnce ==
    /\ cphase = "input"
    /\ c1' = extract_text(cs, TRUE)
    /\ cphase' = "cleaned"
    /\ UNCHANGED <<cs, c2, evars, mvars>>

CleanAgain ==
    /\ cphase = "cleaned"
    /\ c2' = extract_text(c1, TRUE)
    /\ cphase' = "recleaned"
    /\ UNCHANGED <<cs, c1, evars, mvars>>

CleanNext == CleanOnce \/ CleanAgain

SpecClean == CleanInit /\ [][CleanNext]_vars

\* C10 (as stated): cleaning the result of cleaning any string returns that
\* result unchanged.
C10_Idempotent == cphase = "recleaned" => c2 = c1

\* C10 (amended): cleaning is idempotent on every string whose cleaned result
\* holds no remaining tag-shaped span.
C10_IdempotentWhenTagFree == (cphase = "recleaned" /\ ~HasTag(c1)) => c2 = c1

C10_Witness ==
    /\ cphase = "recleaned"
    /\ HasTag(cs)
    /\ \E i \in 1..Len(cs) : cs[i] = "\n"
    /\ ~HasTag(c1)
    /\ \E i \in 1..Len(c1) : c1[i] = " "
    /\ c1 # cs
    /\ c2 = c1

\* --------------------------------------------------------- get_store_details
\* str.upper() on the characters of the day names
UpperChar(c) == CASE c = "a" -> "A" [] c = "m" -> "M" [] c = "s" -> "S" [] OTHER -> c
Upper(s) == [i \in 1..Len(s) |-> UpperChar(s[i])]

\* float(text): optional sign, digits with at most one point, one digit at least
Unsigned(s) == IF s # <<>> /\ s[1] = "-" THEN Tail(s) ELSE s

IsFloatLiteral(s) ==
    LET u == Unsigned(s)
    IN /\ \A i \in 1..Len(u) : IsDigit(u[i]) \/ u[i] = "."
       /\ Cardinality({i \in 1..Len(u) : u[i] = "."}) <= 1
       /\ \E i \in 1..Len(u) : IsDigit(u[i])

RECURSIVE DigitsValue(_)
DigitsValue(d) == IF d = <<>> THEN 0 ELSE 10 * DigitsValue(SubStr(d, 1, Len(d) - 1)) + DigitVal(d[Len(d)])

RECURSIVE NormFloat(_, _)
NormFloat(m, e) == IF e > 0 /\ m % 10 = 0 THEN NormFloat(m \div 10, e - 1) ELSE <<m, e>>

\* the value of float(s) as <<mantissa, decimal places>>: -3.5 is <<-35, 1>>
FloatValue(s) ==
    LET u == Unsigned(s)
        digits == SelectSeq(u, IsDigit)
        points == {i \in 1..Len(u) : u[i] = "."}
        places == IF points = {} THEN 0 ELSE Len(u) - (CHOOSE i \in points : TRUE)
        m == DigitsValue(digits)
    IN NormFloat(IF s[1] = "-" THEN 0 - m ELSE m, places)

\* re.search(r'/(\d+)$', url): '$' matches at the end and before a final newline
LocationId(url) ==
    LET n == Len(url)
        e == IF n > 0 /\ url[n] = "\n" THEN n - 1 ELSE n
        starts == {p \in 1..(e - 1) : url[p] = "/" /\ \A k \in (p + 1)..e : IsDigit(url[k])}
    IN IF starts = {} THEN NoneVal
       ELSE SubStr(url, (CHOOSE p \in starts : TRUE) + 1, e)

\* `if x:` on a str-or-None value
Truthy(x) == x # NoneVal /\ x # <<>>

TradingHours(pairs) ==
    [k \in 1..Len(pairs) |->
        [typename |-> "TradingHour", hours |-> Strip(pairs[k][2]), weekDay |-> Upper(Strip(pairs[k][1]))]]

Diag(kind, arg) == [ch |-> "stderr", kind |-> kind, arg |-> arg]

\* The try body of get_store_details after a successful fetch: either an
\* exception (raised |-> its type) or the returned value.
ExtractBody(url, page) ==
    LET public_name == extract_text(page.name, TRUE)
        phone_number == extract_text(page.phone, TRUE)
        latitude == extract_text(page.lat, TRUE)
        longitude == extract_text(page.lng, TRUE)
        address_block_html == extract_text(page.addr.block, FALSE)
        inBlock == Truthy(address_block_html)
        street_address_html == IF inBlock THEN extract_text(page.addr.street, FALSE) ELSE NoneVal
        \* extract_text(r'.*', street_address_html): the pattern has no group 1
        streetRaises == inBlock /\ Truthy(street_address_html)
        address1 == NoneVal
        city == IF inBlock THEN extract_text(page.addr.city, TRUE) ELSE NoneVal
        state == IF inBlock THEN extract_text(page.addr.state, TRUE) ELSE NoneVal
        postcode == IF inBlock THEN extract_text(page.addr.postcode, TRUE) ELSE NoneVal
        hours_block_html == extract_text(page.hours.block, FALSE)
        trading_hours_list == IF Truthy(hours_block_html) THEN TradingHours(page.hours.pairs) ELSE <<>>
        location_id == LocationId(url)
        latRaises == Truthy(latitude) /\ ~IsFloatLiteral(latitude)
        lngRaises == Truthy(longitude) /\ ~IsFloatLiteral(longitude)
    IN IF streetRaises THEN [raised |-> "IndexError", value |-> NotFound]
       ELSE IF ~Truthy(public_name) THEN [raised |-> "", value |-> NotFound]
       ELSE IF latRaises \/ lngRaises THEN [raised |-> "ValueError", value |-> NotFound]
       ELSE [raised |-> "",
             value |-> <<[locationId |-> location_id,
                        publicName |-> public_name,
                        phoneNumber |-> phone_number,
                        address1 |-> address1,
                        address2 |-> NoneVal,
                        address3 |-> NoneVal,
                        city |-> city,
                        state |-> state,
                        postcode |-> postcode,
                        latitude |-> IF Truthy(latitude) THEN FloatValue(latitude) ELSE NoneVal,
                        longitude |-> IF Truthy(longitude) THEN FloatValue(longitude) ELSE NoneVal,
                        tradingHours |-> trading_hours_list,
                        typename |-> "Location",
                        url |-> url]>>]

\* get_store_details(url): the returned value and the lines it prints.
\* world.fetch is what urlopen/read does: "ok", "urlerror" (URLError or
\* HTTPError) or "exception" (anything else); urlopen(None) raises AttributeError.
get_store_details(url, world, verb) ==
    LET fetching == IF verb THEN <<Diag("Fetching", <<url>>)>> ELSE <<>>
        fetch == IF url = NoneVal THEN "exception" ELSE world.fetch
        body == ExtractBody(url, world.page)
    IN IF fetch = "urlerror"
       THEN [value |-> NotFound, out |-> fetching \o <<Diag("Error fetching", <<url>>)>>]
       ELSE IF fetch = "exception"
       THEN [value |-> NotFound, out |-> fetching \o <<Diag("Error processing", <<url>>)>>]
       ELSE IF body.raised # ""
       THEN [value |-> NotFound, out |-> fetching \o <<Diag("Error processing", <<url>>)>>]
       ELSE [value |-> body.value, out |-> fetching]

\* ---------------------------------------------------------------- the pages
NameCaps == {NoMatch, <<"a">>, <<"<", "a", ">">>}
PhoneCaps == {NoMatch, <<"5", " ", " ", "5">>}
LatCaps == {NoMatch, <<"-", "3", ".", "5">>, <<"a">>, <<" ">>}
LngCaps == {NoMatch, <<"5">>, <<"a">>}
BlockPresent == <<"<", "a", ">", "s">>
AddrAbsent == [block |-> NoMatch, street |-> NoMatch, city |-> NoMatch, state |-> NoMatch, postcode |-> NoMatch]
AddrNoStreet == [block |-> BlockPresent, street |-> NoMatch, city |-> <<"a">>, state |-> NoMatch, postcode |-> <<"2">>]
AddrStreet == [block |-> BlockPresent, street |-> <<"5", " ", "<", "a", ">", "s">>, city |-> <<"a">>, state |-> <<"s">>, postcode |-> <<"2">>]
AddrCaps == {AddrAbsent, AddrNoStreet, AddrStreet}
HoursAbsent == [block |-> NoMatch, pairs |-> <<>>]
HoursEmpty == [block |-> BlockPresent, pairs |-> <<>>]
HoursTwoDays == [block |-> BlockPresent, pairs |-> << <<<<"m">>, <<" ", "5">>>>, <<<<"s", "a">>, <<"7">>>> >>]
HoursCaps == {HoursAbsent, HoursEmpty, HoursTwoDays}

Pages == [name : NameCaps, phone : PhoneCaps, lat : LatCaps, lng : LngCaps, addr : AddrCaps, hours : HoursCaps]
FetchOutcomes == {"ok", "urlerror", "exception"}
Worlds == [fetch : FetchOutcomes, page : Pages]

\* ------------------------------------------- get_store_details, in isolation
UrlAlphabet == {"/", "s", "7", "\n"}

ExtractInit ==
    /\ eurl \in StringsUpTo(UrlAlphabet, MaxUrlLen)
    /\ eworld \in {w \in Worlds : w.fetch = "ok" \/ w.page = CHOOSE p \in Pages : TRUE}
    /\ everbose \in BOOLEAN
    /\ ephase = "call"
    /\ eres = [value |-> NotFound, out |-> <<>>]
    /\ CleanIdle
    /\ MainIdle

ExtractCall ==
    /\ ephase = "call"
    /\ eres' = get_store_details(eurl, eworld, everbose)
    /\ ephase' = "returned"
    /\ UNCHANGED <<eurl, eworld, everbose, cvars, mvars>>

ExtractNext == ExtractCall

SpecExtract == ExtractInit /\ [][ExtractNext]_vars

\* C3 (as stated): a page with a derivable publicName and a data-lat or
\* data-lng value that is present but not a number still yields a record, with
\* that coordinate null and the other fields as derived, and no error is reported.
NameDerived == eworld.fetch = "ok" /\ Truthy(extract_text(eworld.page.name, TRUE))
Unparseable(cap) == cap # NoMatch /\ ~IsFloatLiteral(extract_text(cap, TRUE))
NoErrorLine(out) == \A k \in 1..Len(out) : out[k].kind = "Fetching"

C3_UnparseableCoordinateBecomesNull ==
    (/\ ephase = "returned"
     /\ NameDerived
     /\ Unparseable(eworld.page.lat) \/ Unparseable(eworld.page.lng))
    => /\ eres.value # NotFound
       /\ Unparseable(eworld.page.lat) => eres.value[1].latitude = NoneVal
       /\ Unparseable(eworld.page.lng) => eres.value[1].longitude = NoneVal
       /\ eres.value[1].publicName = extract_text(eworld.page.name, TRUE)
       /\ eres.value[1].phoneNumber = extract_text(eworld.page.phone, TRUE)
       /\ eres.value[1].url = eurl
       /\ NoErrorLine(eres.out)

\* C5 (as stated): the locationId is the maximal run of digits at the end of
\* the URL when the URL ends in a digit, and null exactly when it does not.
RECURSIVE TrailingDigits(_)
TrailingDigits(url) ==
    IF url = <<>> \/ ~IsDigit(url[Len(url)]) THEN <<>>
    ELSE Append(TrailingDigits(SubStr(url, 1, Len(url) - 1)), url[Len(url)])

C5_LocationIdIsTrailingDigits ==
    (ephase = "returned" /\ eres.value # NotFound)
    => eres.value[1].locationId =
         (IF TrailingDigits(eurl) = <<>> THEN NoneVal ELSE TrailingDigits(eurl))

\* C7 (as stated): a returned record has a publicName; no derivable name gives
\* "not found"; a name derived from a fetched page gives a record.
C7_RecordIffNameDerived ==
    ephase = "returned"
    => /\ eres.value # NotFound => Truthy(eres.value[1].publicName)
       /\ ~NameDerived => eres.value = NotFound
       /\ NameDerived => eres.value # NotFound

\* ----------------------------------------------------------------- main()
Out(kind, arg) == [ch |-> "stdout", kind |-> kind, arg |-> arg]

\* extract_urls_from_sitemap without its except clause
extract_urls_from_sitemap_uncaught(file) ==
    IF file.state = "ok"
    THEN [urls |-> file.locs, out |-> <<>>, raised |-> FALSE]
    ELSE [urls |-> <<>>, out |-> <<>>, raised |-> TRUE]

\* extract_urls_from_sitemap(filepath): ET.parse raises on a missing or
\* malformed file; every exception is caught, reported and turned into [].
\* An empty <loc/> has text None.
extract_urls_from_sitemap(file) ==
    IF file.state = "ok"
    THEN [urls |-> file.locs, out |-> <<>>, raised |-> FALSE]
    ELSE [urls |-> <<>>, out |-> <<Diag("Error parsing sitemap", <<>>)>>, raised |-> FALSE]

\* the existence check left out
SitemapAssumedPresent(file) == FALSE

\* not Path(SITEMAP_FILE).exists()
SitemapMissing(file) == file.state = "missing"

\* enumerate(urls) counting from 0
ErrorEntryFromZero(n, url) == <<n - 1, url>>

\* errors.append((i, url))
ErrorEntry(n, url) == <<n, url>>

\* the progress lines of the loop body, printed when verbose
ProgressLine(n, total, value) ==
    IF value # NotFound
    THEN Diag("Progress", <<n, total, value[1].publicName>>)
    ELSE Diag("Progress failed", <<n, total>>)

\* the summary printed on the primary channel (file=sys.stderr forgotten)
SummaryLinesOnStdout(stores, errs) ==
    <<Out("Extracted", <<Len(stores)>>)>>
    \o (IF errs # <<>>
        THEN <<Diag("Failed to extract", <<Len(errs)>>)>>
             \o [k \in 1..Len(errs) |-> Diag("Failure", errs[k])]
        ELSE <<>>)

\* lines 149-153
SummaryLines(stores, errs) ==
    <<Diag("Extracted", <<Len(stores)>>)>>
    \o (IF errs # <<>>
        THEN <<Diag("Failed to extract", <<Len(errs)>>)>>
             \o [k \in 1..Len(errs) |-> Diag("Failure", errs[k])]
        ELSE <<>>)

\* Python's str comparison: lexicographic by code point
RECURSIVE StrLess(_, _)
StrLess(a, b) ==
    IF b = <<>> THEN FALSE
    ELSE IF a = <<>> THEN TRUE
    ELSE IF CharCode(Head(a)) # CharCode(Head(b)) THEN CharCode(Head(a)) < CharCode(Head(b))
    ELSE StrLess(Tail(a), Tail(b))

\* x.get('locationId', ''): the key is always present, so the default is never used
SortKey(x) == x.locationId

\* '<' between the keys raises TypeError when one of them is None; sorting a
\* list of two or more compares every key at least once
SortRaises(stores) ==
    Len(stores) >= 2 /\ \E k \in 1..Len(stores) : SortKey(stores[k]) = NoneVal

\* sorted(): stable, ascending by key; keys[k] is the key of items[k]
RECURSIVE InsertByKey(_, _, _, _)
InsertByKey(x, kx, items, keys) ==
    IF items = <<>> THEN <<x>>
    ELSE IF StrLess(kx, Head(keys)) THEN <<x>> \o items
    ELSE <<Head(items)>> \o InsertByKey(x, kx, Tail(items), Tail(keys))

RECURSIVE SortedByKeys(_, _)
SortedByKeys(items, keys) ==
    IF items = <<>> THEN <<>>
    ELSE LET n == Len(items)
             front == SortedByKeys(SubStr(items, 1, n - 1), SubStr(keys, 1, n - 1))
             frontKeys == SortedByKeys(SubStr(keys, 1, n - 1), SubStr(keys, 1, n - 1))
         IN InsertByKey(items[n], keys[n], front, frontKeys)

all_stores_sorted(stores) == SortedByKeys(stores, [k \in 1..Len(stores) |-> SortKey(stores[k])])

\* the sitemap's <loc> texts and the pages the run can meet
MainLocs == {<<"/", "0", "5">>, <<"/", "0", "2">>, <<"/", "s">>, NoneVal}

GoodPage == [name |-> <<"a">>, phone |-> <<"5", " ", " ", "5">>, lat |-> <<"-", "3", ".", "5">>,
             lng |-> <<"5">>, addr |-> AddrNoStreet, hours |-> HoursTwoDays]
BarePage == [name |-> <<"a">>, phone |-> NoMatch, lat |-> NoMatch,
             lng |-> NoMatch, addr |-> AddrAbsent, hours |-> HoursAbsent]
NoHeadingPage == [name |-> NoMatch, phone |-> <<"5", " ", " ", "5">>, lat |-> <<"-", "3", ".", "5">>,
                  lng |-> <<"5">>, addr |-> AddrNoStreet, hours |-> HoursTwoDays]
BadLatPage == [name |-> <<"a">>, phone |-> NoMatch, lat |-> <<"a">>,
               lng |-> <<"5">>, addr |-> AddrAbsent, hours |-> HoursAbsent]
StreetPage == [name |-> <<"a">>, phone |-> <<"5", " ", " ", "5">>, lat |-> <<"-", "3", ".", "5">>,
               lng |-> <<"5">>, addr |-> AddrStreet, hours |-> HoursTwoDays]
MainPages == {GoodPage, BarePage, NoHeadingPage, BadLatPage, StreetPage}
MainWorlds ==
    {[fetch |-> "ok", page |-> p] : p \in MainPages}
    \cup {[fetch |-> f, page |-> BarePage] : f \in {"urlerror", "exception"}}

SitemapFiles ==
    {[state |-> "missing", locs |-> <<>>], [state |-> "malformed", locs |-> <<>>]}
    \cup {[state |-> "ok", locs |-> l] : l \in StringsUpTo(MainLocs, MaxUrls)}

MainInit ==
    /\ pc = "start"
    /\ argv \in BOOLEAN
    /\ sitemap \in SitemapFiles
    /\ verbose = FALSE
    /\ urls = <<>>
    /\ idx = 0
    /\ all_stores = <<>>
    /\ errors = <<>>
    /\ log = <<>>
    /\ exitStatus = -1
    /\ requests = 0
    /\ sleeps = 0
    /\ CleanIdle
    /\ ExtractIdle

\* lines 117-124: parse the arguments, stop when the sitemap file is missing
CheckSitemap ==
    /\ pc = "start"
    /\ verbose' = argv
    /\ IF SitemapMissing(sitemap)
       THEN /\ log' = Append(log, Diag("Sitemap not found", <<>>))
            /\ exitStatus' = 1
            /\ pc' = "exited"
       ELSE /\ pc' = "read"
            /\ UNCHANGED <<log, exitStatus>>
    /\ UNCHANGED <<argv, sitemap, urls, idx, all_stores, errors, requests, sleeps, cvars, evars>>

\* lines 126-132
ReadSitemap ==
    /\ pc = "read"
    /\ LET r == extract_urls_from_sitemap(sitemap)
       IN IF r.raised
          THEN /\ log' = log \o <<Diag("Traceback", <<>>)>>
               /\ exitStatus' = 1
               /\ pc' = "exited"
               /\ UNCHANGED urls
          ELSE /\ urls' = r.urls
               /\ log' = log \o r.out
                         \o (IF verbose THEN <<Diag("Found", <<Len(r.urls)>>)>> ELSE <<>>)
               /\ pc' = "loop"
               /\ UNCHANGED exitStatus
    /\ all_stores' = <<>>
    /\ errors' = <<>>
    /\ idx' = 0
    /\ UNCHANGED <<argv, sitemap, verbose, requests, sleeps, cvars, evars>>

\* lines 134-146: one iteration of the loop, for the URL at position idx + 1
LoopBody ==
    /\ pc = "loop"
    /\ idx < Len(urls)
    /\ \E world \in MainWorlds :
         LET n == idx + 1
             url == urls[n]
             r == get_store_details(url, world, verbose)
         IN /\ requests' = requests + 1
            /\ IF r.value # NotFound
               THEN /\ all_stores' = Append(all_stores, r.value[1])
                    /\ UNCHANGED errors
               ELSE /\ errors' = Append(errors, ErrorEntry(n, url))
                    /\ UNCHANGED all_stores
            /\ log' = log \o r.out
                      \o (IF verbose THEN <<ProgressLine(n, Len(urls), r.value)>> ELSE <<>>)
            /\ sleeps' = sleeps + 1
            /\ idx' = n
    /\ UNCHANGED <<pc, argv, sitemap, verbose, urls, exitStatus, cvars, evars>>

\* lines 148-153: the summary, after the last URL
Summary ==
    /\ pc = "loop"
    /\ idx = Len(urls)
    /\ log' = log \o SummaryLines(all_stores, errors)
    /\ pc' = "sort"
    /\ UNCHANGED <<argv, sitemap, verbose, urls, idx, all_stores, errors, exitStatus, requests, sleeps, cvars, evars>>

\* lines 155-156: sort and print; an uncaught TypeError ends the process with
\* a traceback on stderr and exit status 1
SortAndPrint ==
    /\ pc = "sort"
    /\ IF SortRaises(all_stores)
       THEN /\ log' = Append(log, Diag("Traceback", <<>>))
            /\ exitStatus' = 1
       ELSE /\ log' = Append(log, Out("json", all_stores_sorted(all_stores)))
            /\ exitStatus' = 0
    /\ pc' = "exited"
    /\ UNCHANGED <<argv, sitemap, verbose, urls, idx, all_stores, errors, requests, sleeps, cvars, evars>>

Next == CheckSitemap \/ ReadSitemap \/ LoopBody \/ Summary \/ SortAndPrint

Spec == MainInit /\ [][Next]_vars

Stdout == SelectSeq(log, LAMBDA e : e.ch = "stdout")

HasLine(kind) == \E k \in 1..Len(log) : log[k].kind = kind

\* C1 (as stated): the extracted records are emitted sorted ascending by
\* locationId as a string, a null locationId counting as the empty string.
KeyNullAsEmpty(x) == IF x.locationId = NoneVal THEN <<>> ELSE x.locationId
SortedNullFirst(stores) == SortedByKeys(stores, [k \in 1..Len(stores) |-> KeyNullAsEmpty(stores[k])])

C1_EmittedSortedNullFirst ==
    (pc = "exited" /\ sitemap.state # "missing")
    => Stdout = <<Out("json", SortedNullFirst(all_stores))>>

\* C2 (as stated): when the sitemap file exists, the run attempts every URL,
\* writes the JSON document and exits with status 0, whatever the per-URL outcomes.
C2_AlwaysCompletes ==
    (pc = "exited" /\ sitemap.state # "missing")
    => /\ exitStatus = 0
       /\ idx = Len(urls)
       /\ requests = Len(urls)
       /\ Len(Stdout) = 1
       /\ Stdout[1].kind = "json"

\* C4: every URL is classified exactly once and in order, as a success record
\* or as the error pair (1-based index, url); after the loop successes and
\* errors add up to the number of URLs, the summary lists exactly the errors
\* and a written document holds exactly the success records.
RECURSIVE Ascending(_)
Ascending(S) ==
    IF S = {} THEN <<>>
    ELSE LET m == CHOOSE x \in S : \A y \in S : x <= y
         IN <<m>> \o Ascending(S \ {m})

SamePopulation(a, b) ==
    /\ Len(a) = Len(b)
    /\ \A k \in 1..Len(a) :
         Cardinality({j \in 1..Len(a) : a[j] = a[k]}) = Cardinality({j \in 1..Len(b) : b[j] = a[k]})

C6_MissingSitemapAborts ==
    sitemap.state = "missing"
    => /\ pc \in {"start", "exited"}
       /\ requests = 0
       /\ sleeps = 0
       /\ Stdout = <<>>
       /\ pc = "exited" => exitStatus > 0

C6_Witness ==
    /\ sitemap.state = "missing"
    /\ pc = "exited"
    /\ exitStatus = 1
    /\ HasLine("Sitemap not found")

\* C8: an existing sitemap that does not parse is reported and read as no
\* URLs; the run fetches nothing, writes an empty JSON array and exits with 0.
C8_MalformedSitemapGivesEmptyOutput ==
    sitemap.state = "malformed"
    => /\ requests = 0
       /\ urls = <<>>
       /\ pc \in {"loop", "sort", "exited"} => HasLine("Error parsing sitemap")
       /\ pc = "exited" => /\ exitStatus = 0
                           /\ Stdout = <<Out("json", <<>>)>>

C8_Witness ==
    /\ sitemap.state = "malformed"
    /\ pc = "exited"
    /\ exitStatus = 0
    /\ requests = 0
    /\ Stdout = <<Out("json", <<>>)>>
    /\ HasLine("Error parsing sitemap")

\* C9: the primary channel carries nothing but the JSON array, written once,
\* last, after the loop and after the summary; every other line is diagnostic.
C9_OnlyJsonOnStdout ==
    /\ Len(Stdout) <= 1
    /\ \A k \in 1..Len(log) :
         /\ log[k].kind # "json" => log[k].ch = "stderr"
         /\ log[k].ch = "stdout"
            => /\ log[k].kind = "json"
               /\ k = Len(log)
               /\ pc = "exited"
               /\ idx = Len(urls)
               /\ \E j \in 1..(k - 1) : log[j] = Diag("Extracted", <<Len(all_stores)>>)

C9_Witness ==
    /\ pc = "exited"
    /\ verbose
    /\ Len(Stdout) = 1
    /\ all_stores # <<>>
    /\ errors # <<>>
    /\ HasLine("Fetching")
    /\ HasLine("Error fetching")
    /\ HasLine("Error processing")
    /\ HasLine("Progress")
    /\ HasLine("Progress failed")
    /\ HasLine("Failure")

====
